---- MODULE Spec2Model ----
(***************************************************************************)
(* Model of the Stream lifecycle core of m7s engine (src/stream.go): one   *)
(* Stream, its owning task (Stream.run), the capacity-1 action queue with  *)
(* concurrent Receive callers, the state timer and the pulse ticker.       *)
(* RegSpec models the registry under concurrent findOrCreateStream calls,  *)
(* H265Spec the NALU and RTP handling of src/track/h265.go.                *)
(***************************************************************************)
EXTENDS Integers, Sequences, FiniteSets, TLC

Nil == "nil"

\* ---------------------------------------------------------------- bounds
MaxCalls == 2      \* Receive calls made over one behaviour
MaxPulses == 1     \* PulseEvents delivered over one behaviour
MaxLiveCalls == 1  \* Receive calls made over one behaviour of LiveSpec

\* s.actionChan.Init(1)
ChanCap == 1

\* ------------------------------------------------- states and actions
STATE_WAITPUBLISH == "WaitPublish"
STATE_PUBLISHING == "Publishing"
STATE_WAITCLOSE == "WaitClose"
STATE_CLOSED == "Closed"
States == {STATE_WAITPUBLISH, STATE_PUBLISHING, STATE_WAITCLOSE, STATE_CLOSED}

ACTION_PUBLISH == "Publish"
ACTION_TIMEOUT == "Timeout"
ACTION_PUBLISHLOST == "PublishLost"
ACTION_CLOSE == "Close"
ACTION_LASTLEAVE == "LastLeave"
ACTION_FIRSTENTER == "FirstEnter"
Actions == {ACTION_PUBLISH, ACTION_TIMEOUT, ACTION_PUBLISHLOST,
            ACTION_CLOSE, ACTION_LASTLEAVE, ACTION_FIRSTENTER}

\* the table with Timeout also accepted while Publishing
StreamFSM_timeoutWhilePublishing ==
  [from \in States |->
     CASE from = STATE_WAITPUBLISH ->
            (ACTION_PUBLISH :> STATE_PUBLISHING) @@ (ACTION_TIMEOUT :> STATE_CLOSED)
            @@ (ACTION_LASTLEAVE :> STATE_CLOSED) @@ (ACTION_CLOSE :> STATE_CLOSED)
       [] from = STATE_PUBLISHING ->
            (ACTION_PUBLISHLOST :> STATE_WAITPUBLISH) @@ (ACTION_LASTLEAVE :> STATE_WAITCLOSE)
            @@ (ACTION_CLOSE :> STATE_CLOSED) @@ (ACTION_TIMEOUT :> STATE_CLOSED)
       [] from = STATE_WAITCLOSE ->
            (ACTION_PUBLISHLOST :> STATE_CLOSED) @@ (ACTION_TIMEOUT :> STATE_CLOSED)
            @@ (ACTION_FIRSTENTER :> STATE_PUBLISHING) @@ (ACTION_CLOSE :> STATE_CLOSED)
       [] from = STATE_CLOSED -> << >>]

\* the table with the Publish entry of WaitPublish left out
StreamFSM_noPublish ==
  [from \in States |->
     CASE from = STATE_WAITPUBLISH ->
            (ACTION_TIMEOUT :> STATE_CLOSED)
            @@ (ACTION_LASTLEAVE :> STATE_CLOSED) @@ (ACTION_CLOSE :> STATE_CLOSED)
       [] from = STATE_PUBLISHING ->
            (ACTION_PUBLISHLOST :> STATE_WAITPUBLISH) @@ (ACTION_LASTLEAVE :> STATE_WAITCLOSE)
            @@ (ACTION_CLOSE :> STATE_CLOSED)
       [] from = STATE_WAITCLOSE ->
            (ACTION_PUBLISHLOST :> STATE_CLOSED) @@ (ACTION_TIMEOUT :> STATE_CLOSED)
            @@ (ACTION_FIRSTENTER :> STATE_PUBLISHING) @@ (ACTION_CLOSE :> STATE_CLOSED)
       [] from = STATE_CLOSED -> << >>]

StreamFSM ==
  [from \in States |->
     CASE from = STATE_WAITPUBLISH ->
            (ACTION_PUBLISH :> STATE_PUBLISHING) @@ (ACTION_TIMEOUT :> STATE_CLOSED)
            @@ (ACTION_LASTLEAVE :> STATE_CLOSED) @@ (ACTION_CLOSE :> STATE_CLOSED)
       [] from = STATE_PUBLISHING ->
            (ACTION_PUBLISHLOST :> STATE_WAITPUBLISH) @@ (ACTION_LASTLEAVE :> STATE_WAITCLOSE)
            @@ (ACTION_CLOSE :> STATE_CLOSED)
       [] from = STATE_WAITCLOSE ->
            (ACTION_PUBLISHLOST :> STATE_CLOSED) @@ (ACTION_TIMEOUT :> STATE_CLOSED)
            @@ (ACTION_FIRSTENTER :> STATE_PUBLISHING) @@ (ACTION_CLOSE :> STATE_CLOSED)
       [] from = STATE_CLOSED -> << >>]

\* ------------------------------------------------------------ universe
Path == "live/cam1"
Publishers == {"p1", "p2"}
Subs == {"s1"}
TrackIds == {"v1", "a1", "d1"}
TrackKind == ("v1" :> "Video") @@ ("a1" :> "Audio") @@ ("d1" :> "Data")
TrackName == ("v1" :> "main") @@ ("a1" :> "main") @@ ("d1" :> "data")
TrackNames == {TrackName[t] : t \in TrackIds}

\* what Receive is called with; a promise item also carries its promise
PromiseTypes == {"PubReq", "SubReq", "TrackAdd"}
Items ==
  [type : {"PubReq"}, v : Publishers]
  \cup [type : {"SubReq", "Unsubscribe", "SubPulse"}, v : Subs]
  \cup [type : {"TrackAdd", "TrackRemoved"}, v : TrackIds]
  \cup [type : {"NoMoreTrack"}, v : {Nil}]
  \cup [type : {"StreamAction"}, v : Actions]

VARIABLES
  s,           \* the Stream: State, SEHistory, Publisher, Subscribers, Tracks, MainVideo, timeout
  actionChan,  \* SafeChan: C (buffer of call ids), senders, closed
  Streams,     \* the registry: set of registered paths
  EventBus,    \* events sent on the global bus, in order
  obs,         \* what the collaborators saw: OnEvent (Publisher), Broadcast (Subscribers), pulses;
               \* the calls counted; the fields read off the owning task; what the
               \* tracks and the Publisher reported at the last timer tick while Publishing
  pulseSuber,  \* run's local set of pulse subscribers
  pc,          \* position of the owning task: "run", "closing", "done", "panic"
  calls,       \* Receive calls in progress: item, promise, position
  promises,    \* the promises created so far: type, settlements, refused by Receive
  cfg,         \* StreamTimeoutConfig
  reg,         \* the registry seen by concurrent findOrCreateStream callers and closing owners
  vt           \* an H265 track: Value.IFrame, the AU in progress, dcChanged, the frames flushed

vars == <<s, actionChan, Streams, EventBus, obs, pulseSuber, pc, calls, promises, cfg, reg, vt>>

\* ------------------------------------------------------------- helpers
\* time.Timer: Reset arms it, Stop disarms it; a value already delivered on
\* its channel C stays there until the owning task receives it.
Reset(tm, d) == [tm EXCEPT !.armed = TRUE, !.d = d]
Stop(tm) == [tm EXCEPT !.armed = FALSE]

\* Subscribers (set of public subscribers, shared waitAborted flag)
SubscribersLen(r) == Cardinality(r.Subscribers)
AbortWait(r) == [r EXCEPT !.waitAborted = TRUE]

\* StateEvent.Next: lookup in StreamFSM; a missing key yields the zero
\* value of StreamState (STATE_WAITPUBLISH) and ok = false.
EventNext(event) ==
  IF event.Action \in DOMAIN StreamFSM[event.From]
  THEN [next |-> StreamFSM[event.From][event.Action], ok |-> TRUE]
  ELSE [next |-> STATE_WAITPUBLISH, ok |-> FALSE]

\* EventBus <- stateEvent; if r.Publisher != nil { r.Publisher.OnEvent(stateEvent) }
Emit(w, ev) ==
  [w EXCEPT !.EventBus = Append(@, ev),
            !.obs.OnEvent = IF w.s.Publisher # Nil
                            THEN Append(@, [to |-> w.s.Publisher, ev |-> ev])
                            ELSE @]

\* r.Subscribers.Broadcast(stateEvent), recorded with len(r.SEHistory)
Broadcast(w, ev) ==
  [w EXCEPT !.obs.Broadcast = Append(@, [ev |-> ev, n |-> Len(w.s.SEHistory)])]

\* the else branch of Stream.action: "wrong action" is logged, nothing changes
wrongAction_recorded(w, event) == [w EXCEPT !.s.SEHistory = Append(@, event)]
wrongAction(w, event) == w

\* the event of a transition to Publishing: len(r.SEHistory) > 1 is a republish
PublishingEvent_off == [len \in Nat |-> IF len > 0 THEN "SErepublish" ELSE "SEpublish"]
PublishingEvent == [len \in Nat |-> IF len > 1 THEN "SErepublish" ELSE "SEpublish"]

\* the idle test without the look at the subscribers
idleLeave_anySubscribers(r) == cfg.IdleTimeout > 0

\* r.IdleTimeout > 0 && r.Subscribers.Len() == 0
idleLeave(r) == cfg.IdleTimeout > 0 /\ SubscribersLen(r) = 0

\* Stream.action.  w = [s, EventBus, obs]; the result carries ok.
\* The timer is reset with the name of the duration: "waitTime" is the value
\* lines 276-291 compute.  Calls into the tracks and subscribers that change
\* nothing of the Stream (SetStuff, OnPublisherLost) are left out.
\* The transition to Closed stops at the spin-close loop: the rest of that
\* case is the step SpinClose of the owning task.
RECURSIVE action(_, _)
action(w, a) ==
  LET event == [Action |-> a, From |-> w.s.State]
      n == EventNext(event)
  IN IF ~n.ok THEN [w |-> wrongAction(w, event), ok |-> FALSE]
     ELSE
       LET w1 == [w EXCEPT !.s.State = n.next,
                           !.s.SEHistory = Append(@, event),
                           !.obs.accepted = @ + 1]
       IN CASE n.next = STATE_WAITPUBLISH ->
                 LET w2 == IF w1.s.Subscribers # {}
                           THEN Broadcast(w1, "SEwaitPublish") ELSE w1
                     w3 == [w2 EXCEPT !.s.timeout = Reset(@, "waitTime")]
                 IN [w |-> Emit(w3, "SEwaitPublish"), ok |-> TRUE]
            [] n.next = STATE_PUBLISHING ->
                 LET ev == PublishingEvent[Len(w1.s.SEHistory)]
                     w2 == Broadcast(w1, ev)
                 IN IF idleLeave(w2.s)
                    THEN action(w2, ACTION_LASTLEAVE)
                    ELSE [w |-> Emit([w2 EXCEPT !.s.timeout = Reset(@, "PublishTimeout")], ev),
                          ok |-> TRUE]
            [] n.next = STATE_WAITCLOSE ->
                 LET w2 == IF cfg.IdleTimeout > 0
                           THEN [w1 EXCEPT !.s.timeout = Reset(@, "IdleTimeout")]
                           ELSE [w1 EXCEPT !.s.timeout = Reset(@, "DelayCloseTimeout")]
                 IN [w |-> Emit(w2, "SEwaitClose"), ok |-> TRUE]
            [] n.next = STATE_CLOSED ->
                 [w |-> w1, ok |-> TRUE]

\* onSuberClose without the test of Subscribers.Len()
onSuberClose_anyLeave(w, sub) ==
  LET w1 == [w EXCEPT !.s.Subscribers = @ \ {sub}]
  IN IF cfg.DelayCloseTimeout > 0 \/ cfg.IdleTimeout > 0
     THEN action(w1, ACTION_LASTLEAVE).w
     ELSE w1

\* Stream.onSuberClose
onSuberClose(w, sub) ==
  LET w1 == [w EXCEPT !.s.Subscribers = @ \ {sub}]
  IN IF (cfg.DelayCloseTimeout > 0 \/ cfg.IdleTimeout > 0) /\ SubscribersLen(w1.s) = 0
     THEN action(w1, ACTION_LASTLEAVE).w
     ELSE w1

\* for sub := range s.Subscribers.public { if sub.IsClosed() { s.onSuberClose(sub) } }
\* with closed the subscribers that report closed
RECURSIVE reap(_, _)
reap(w, closed) ==
  IF closed = {} THEN w
  ELSE LET sub == CHOOSE x \in closed : TRUE
       IN reap(onSuberClose(w, sub), closed \ {sub})

\* Tracks.Add with a map that stores over a name already present
TracksAdd_overwrites(r, t) ==
  LET name == TrackName[t]
      r1 == IF TrackKind[t] = "Video" /\ r.MainVideo = Nil
            THEN [r EXCEPT !.MainVideo = t] ELSE r
  IN [r |-> [r1 EXCEPT !.Tracks[name] = t], ok |-> TRUE]

\* Tracks.Add: MainVideo is set before util.Map.Add, which refuses a name
\* that is already present.
TracksAdd(r, t) ==
  LET name == TrackName[t]
      r1 == IF TrackKind[t] = "Video" /\ r.MainVideo = Nil
            THEN [r EXCEPT !.MainVideo = t] ELSE r
  IN IF r1.Tracks[name] = Nil
     THEN [r |-> [r1 EXCEPT !.Tracks[name] = t], ok |-> TRUE]
     ELSE [r |-> r1, ok |-> FALSE]

TracksLen(r) == Cardinality({nm \in TrackNames : r.Tracks[nm] # Nil})

\* ------------------------------------------------ the registry universe
MaxFinds == 3      \* findOrCreateStream calls made over one behaviour of RegSpec

RegPaths == {"live/cam1", "live/cam2", "cam1"}
\* len(strings.Split(streamPath, "/"))
Segments(p) == IF p = "cam1" THEN 1 ELSE 2
Callers == {"c1", "c2"}

\* ---------------------------------------------------- the H265 universe
MaxAU == 2         \* NALUs appended to one access unit
MaxFrames == 2     \* access units flushed over one behaviour of H265Spec

NAL_UNIT_VPS == 32
NAL_UNIT_SPS == 33
NAL_UNIT_PPS == 34
NAL_UNIT_SEI == 39
NAL_UNIT_RTP_AP == 48
NAL_UNIT_RTP_FU == 49
\* BLA, BLANT, BLA_N_LP, IDR, IDR_N_LP, CRA
KeySliceTypes == 16..21
TrailingSliceTypes == 0..9

\* the NALU types the senders of the model use; 35 (AUD) is not supported
NaluTypes == {1, 19, NAL_UNIT_VPS, NAL_UNIT_SPS, NAL_UNIT_PPS, NAL_UNIT_SEI, 35}
\* first byte of a NALU header of type t: forbidden_zero_bit 0, layer id bit 0
Header(t) == 2 * t
NaluBytes == {Header(t) : t \in NaluTypes}

\* codec.ParseH265NALUType: (b >> 1) & 0x3F
ParseH265NALUType(b) == (b \div 2) % 64

\* Video.WriteSequenceHead: the decoder configuration has changed
WriteSequenceHead(v) == [v EXCEPT !.dcChanged = TRUE]

\* Media.AppendAuBytes: one more NALU in the AU in progress
AppendAuBytes(v, b) == [v EXCEPT !.AU = Append(@, b)]

\* H265.WriteSliceBytes; err is the outcome of BuildH265SeqHeaderFromVpsSpsPps
WriteSliceBytes(v, b, err) ==
  LET t == ParseH265NALUType(b)
  IN IF t \in {NAL_UNIT_VPS, NAL_UNIT_SPS} THEN [v EXCEPT !.ParamaterSets = @ \cup {t}]
     ELSE IF t = NAL_UNIT_PPS
     THEN LET v1 == [v EXCEPT !.ParamaterSets = @ \cup {t}]
          IN IF {NAL_UNIT_VPS, NAL_UNIT_SPS} \subseteq v.ParamaterSets
             THEN IF err THEN [v1 EXCEPT !.closeCalled = TRUE] ELSE WriteSequenceHead(v1)
             ELSE v1
     ELSE IF t \in KeySliceTypes THEN AppendAuBytes([v EXCEPT !.IFrame = TRUE], b)
     ELSE IF t \in TrailingSliceTypes THEN AppendAuBytes([v EXCEPT !.IFrame = FALSE], b)
     ELSE IF t = NAL_UNIT_SEI THEN AppendAuBytes(v, b)
     ELSE v

\* Video.insertDCRtp: the parameter sets as RTP packets ahead of the frame
insertDCRtp(v) == [v EXCEPT !.dcInserted = TRUE]

\* Video.Flush: the frame is published and the ring advances to a fresh slot
Flush(v, dc) ==
  [v EXCEPT !.frames = Append(@, [IFrame |-> v.IFrame, AU |-> v.AU, dcChanged |-> dc,
                                  dcInserted |-> v.dcInserted]),
            !.IFrame = FALSE, !.AU = << >>, !.dcInserted = FALSE]

\* ---------------------------------------------------------------- Init
\* findOrCreateStream has returned and run has sent SEcreate.
Init ==
  /\ s = [State |-> STATE_WAITPUBLISH, SEHistory |-> << >>, Publisher |-> Nil,
          Subscribers |-> {}, waitAborted |-> FALSE,
          Tracks |-> [nm \in TrackNames |-> Nil], MainVideo |-> Nil,
          timeout |-> [armed |-> TRUE, d |-> "waitTimeout", C |-> FALSE]]
  /\ actionChan = [C |-> << >>, senders |-> 0, closed |-> FALSE]
  /\ Streams = {Path}
  /\ EventBus = <<"SEcreate">>
  /\ obs = [OnEvent |-> << >>, Broadcast |-> << >>, pulses |-> 0,
            accepted |-> 0, received |-> 0, foreign |-> {},
            tick |-> [hasTrackTimeout |-> FALSE, pubClosed |-> FALSE]]
  /\ pulseSuber = {}
  /\ pc = "run"
  /\ calls = << >>
  /\ promises = << >>
  /\ cfg \in [IdleTimeout : {0, 1}, DelayCloseTimeout : {0, 1}]
  /\ reg = [Map |-> [p \in RegPaths |-> 0], lock |-> Nil, streams |-> << >>,
            call |-> [c \in Callers |-> [pc |-> "idle", path |-> Nil, s |-> 0, created |-> FALSE]],
            finds |-> 0, deleted |-> {}]
  /\ vt = [IFrame |-> FALSE, AU |-> << >>, dcChanged |-> FALSE, dcInserted |-> FALSE,
           ParamaterSets |-> {}, closeCalled |-> FALSE, frames |-> << >>]

W == [s |-> s, EventBus |-> EventBus, obs |-> obs]

\* the owning task leaves a handler: inside the spin-close loop if the
\* handler made the transition to Closed, back at the select otherwise
Commit(w) ==
  /\ s' = w.s
  /\ EventBus' = w.EventBus
  /\ obs' = w.obs
  /\ pc' = IF w.s.State = STATE_CLOSED /\ s.State # STATE_CLOSED THEN "closing" ELSE "run"

\* case action, ok := <-s.actionChan.C with ok = true: the head of the buffer
\* (a closed channel still delivers what is buffered)
CanDequeue(type) ==
  /\ pc = "run"
  /\ Len(actionChan.C) > 0
  /\ Head(actionChan.C).item.type = type

Dequeued == Head(actionChan.C)
\* Promise.Resolve / Promise.Reject on the promise of the dequeued item
Settle(how) == promises' = [promises EXCEPT ![Dequeued.p].settled = @ \o how]

\* ------------------------------------------------- the owning task: run
\* case <-pulseTicker.C
RunPulse ==
  /\ pc = "run"
  /\ pulseSuber # {}
  /\ obs.pulses < MaxPulses
  /\ obs' = [obs EXCEPT !.pulses = @ + 1]
  /\ UNCHANGED <<s, actionChan, Streams, EventBus, pulseSuber, pc, calls, promises, cfg, reg, vt>>

\* the test with the tracks only
publishLost_tracksOnly(hasTrackTimeout, pubClosed) == hasTrackTimeout

\* hasTrackTimeout || (s.Publisher != nil && s.Publisher.IsClosed())
publishLost(hasTrackTimeout, pubClosed) == hasTrackTimeout \/ pubClosed

\* case <-s.timeout.C.  What the collaborators report is an input of the
\* step: the subscribers that are closed, whether some non-Data track has
\* not been written for PublishTimeout, whether the Publisher is closed.
RunTimeout ==
  /\ pc = "run"
  /\ s.timeout.C
  /\ LET w0 == [W EXCEPT !.s.timeout.C = FALSE]
     IN IF s.State = STATE_PUBLISHING
        THEN \E closed \in SUBSET s.Subscribers, hasTrackTimeout \in BOOLEAN, pubClosed \in BOOLEAN :
               /\ hasTrackTimeout =>
                    \E nm \in TrackNames : s.Tracks[nm] # Nil /\ TrackKind[s.Tracks[nm]] # "Data"
               /\ pubClosed => s.Publisher # Nil
               /\ LET w1 == [w0 EXCEPT !.obs.tick = [hasTrackTimeout |-> hasTrackTimeout,
                                                      pubClosed |-> pubClosed]]
                      w2 == reap(w1, closed)
                  IN IF publishLost(hasTrackTimeout, pubClosed)
                     THEN Commit(action(w2, ACTION_PUBLISHLOST).w)
                     ELSE Commit([w2 EXCEPT !.s = AbortWait([@ EXCEPT !.timeout = Reset(@, "5s")])])
        ELSE Commit(action(w0, ACTION_TIMEOUT).w)
  /\ UNCHANGED <<actionChan, Streams, pulseSuber, calls, promises, cfg, reg, vt>>

Recv == actionChan' = [actionChan EXCEPT !.C = Tail(@)]

\* case SubPulse
RunSubPulse ==
  /\ CanDequeue("SubPulse")
  /\ Recv
  /\ pulseSuber' = pulseSuber \cup {Dequeued.item.v}
  /\ UNCHANGED <<s, Streams, EventBus, obs, pc, calls, promises, cfg, reg, vt>>

\* case *util.Promise[IPublisher]
RunPublish ==
  /\ CanDequeue("PubReq")
  /\ Recv
  /\ LET v == Dequeued.item.v
         first == IF s.State = STATE_CLOSED THEN <<"reject">> ELSE << >>
         republish == s.Publisher = v
         w1 == IF ~republish THEN [W EXCEPT !.s.Publisher = v] ELSE W
         r == action(w1, ACTION_PUBLISH)
     IN /\ Commit(r.w)
        /\ Settle(first \o (IF r.ok \/ republish THEN <<"resolve">> ELSE <<"reject">>))
  /\ UNCHANGED <<Streams, pulseSuber, calls, cfg, reg, vt>>

\* case *util.Promise[ISubscriber].  The track waits of the subscriber,
\* which resolve its promise inside Subscribers, are not part of the model:
\* of the settlements only the rejection on a closed Stream is recorded.
RunSubscribe ==
  /\ CanDequeue("SubReq")
  /\ Recv
  /\ LET suber == Dequeued.item.v
         first == IF s.State = STATE_CLOSED THEN <<"reject">> ELSE << >>
         w1 == [W EXCEPT !.s.Subscribers = @ \cup {suber}]
         w2 == IF SubscribersLen(w1.s) = 1 /\ w1.s.State = STATE_WAITCLOSE
               THEN action(w1, ACTION_FIRSTENTER).w ELSE w1
     IN /\ Commit(w2)
        /\ Settle(first)
  /\ UNCHANGED <<Streams, pulseSuber, calls, cfg, reg, vt>>

\* case Unsubscribe
RunUnsubscribe ==
  /\ CanDequeue("Unsubscribe")
  /\ Recv
  /\ LET v == Dequeued.item.v
     IN /\ pulseSuber' = pulseSuber \ {v}
        /\ Commit(onSuberClose(W, v))
  /\ UNCHANGED <<Streams, calls, promises, cfg, reg, vt>>

\* case TrackRemoved
RunTrackRemoved ==
  /\ CanDequeue("TrackRemoved")
  /\ Recv
  /\ LET name == TrackName[Dequeued.item.v]
         w0 == W
     IN IF s.Tracks[name] # Nil
        THEN LET w1 == [w0 EXCEPT !.s.Tracks[name] = Nil]
             IN IF TracksLen(w1.s) = 0
                THEN Commit(action(w1, ACTION_PUBLISHLOST).w)
                ELSE Commit(w1)
        ELSE Commit(w0)
  /\ UNCHANGED <<Streams, pulseSuber, calls, promises, cfg, reg, vt>>

\* case *util.Promise[Track].  GetPublisherConfig dereferences s.Publisher:
\* with no Publisher the owning task panics there.
RunTrack ==
  /\ CanDequeue("TrackAdd")
  /\ Recv
  /\ \E disabled \in BOOLEAN :
       LET t == Dequeued.item.v
           w0 == W
           w1 == IF s.State = STATE_WAITPUBLISH THEN action(w0, ACTION_PUBLISH).w ELSE w0
           add == TracksAdd(w1.s, t)
           w2 == [w1 EXCEPT !.s = add.r]
       IN IF add.ok
          THEN /\ Settle(<<"resolve">>)
               /\ IF TrackKind[t] \in {"Video", "Audio"} /\ w2.s.Publisher = Nil
                  THEN /\ disabled = FALSE
                       /\ s' = w2.s /\ EventBus' = w2.EventBus /\ obs' = w2.obs
                       /\ pc' = "panic"
                  ELSE /\ (TrackKind[t] = "Data" => disabled = FALSE)
                       /\ LET w3 == IF disabled THEN [w2 EXCEPT !.s = AbortWait(@)] ELSE w2
                          IN Commit([w3 EXCEPT !.s.timeout = Reset(@, "5s")])
          ELSE /\ disabled = FALSE
               /\ Settle(<<"reject">>)
               /\ Commit(w2)
  /\ UNCHANGED <<Streams, pulseSuber, calls, cfg, reg, vt>>

\* case NoMoreTrack
RunNoMoreTrack ==
  /\ CanDequeue("NoMoreTrack")
  /\ Recv
  /\ Commit([W EXCEPT !.s = AbortWait(@)])
  /\ UNCHANGED <<Streams, pulseSuber, calls, promises, cfg, reg, vt>>

\* case StreamAction
RunStreamAction ==
  /\ CanDequeue("StreamAction")
  /\ Recv
  /\ Commit(action(W, Dequeued.item.v).w)
  /\ UNCHANGED <<Streams, pulseSuber, calls, promises, cfg, reg, vt>>

\* case action, ok := <-s.actionChan.C with ok = false
RunChanClosed ==
  /\ pc = "run"
  /\ actionChan.closed
  /\ actionChan.C = << >>
  /\ pc' = "done"
  /\ UNCHANGED <<s, actionChan, Streams, EventBus, obs, pulseSuber, calls, promises, cfg, reg, vt>>

\* SpinClose without Streams.Delete
SpinClose_keepsRegistered ==
  /\ pc = "closing"
  /\ actionChan.senders = 0
  /\ actionChan' = [actionChan EXCEPT !.closed = TRUE]
  /\ LET w1 == Broadcast(W, "SEclose")
         w2 == [w1 EXCEPT !.s.timeout = Stop(@)]
         w3 == Emit(w2, "SEclose")
     IN s' = w3.s /\ EventBus' = w3.EventBus /\ obs' = w3.obs
  /\ pc' = "run"
  /\ UNCHANGED <<Streams, pulseSuber, calls, promises, cfg, reg, vt>>

\* the STATE_CLOSED case of Stream.action from the spin-close loop on:
\* SafeChan.Close succeeds only while no Send is in progress
SpinClose ==
  /\ pc = "closing"
  /\ actionChan.senders = 0
  /\ actionChan' = [actionChan EXCEPT !.closed = TRUE]
  /\ Streams' = Streams \ {Path}
  /\ LET w1 == Broadcast(W, "SEclose")
         w2 == [w1 EXCEPT !.s.timeout = Stop(@)]
         w3 == Emit(w2, "SEclose")
     IN s' = w3.s /\ EventBus' = w3.EventBus /\ obs' = w3.obs
  /\ pc' = "run"
  /\ UNCHANGED <<pulseSuber, calls, promises, cfg, reg, vt>>

\* ------------------------------------------------------ the environment
\* the runtime fires the armed timer: a value on s.timeout.C
TimerFire ==
  /\ pc # "panic"
  /\ s.timeout.armed
  /\ s' = [s EXCEPT !.timeout.armed = FALSE, !.timeout.C = TRUE]
  /\ UNCHANGED <<actionChan, Streams, EventBus, obs, pulseSuber, pc, calls, promises, cfg, reg, vt>>

\* Removal of the k-th call in progress
Drop(cs, k) == SubSeq(cs, 1, k - 1) \o SubSeq(cs, k + 1, Len(cs))

\* Stream.Receive (also Close, AddTrack, RemoveTrack): the IsClosed test.
\* IsClosed reads r.State on the caller's task: obs.foreign collects the
\* fields of the Stream read by tasks other than the owning one.
\* A promise item comes with a new promise (util.NewPromise in AddTrack).
\* made by callers that send the items of a given set, max calls in all
ReceiveOf(items, max) ==
  /\ pc # "panic"
  /\ obs.received < max
  /\ obs' = [obs EXCEPT !.received = @ + 1, !.foreign = @ \cup {"State"}]
  /\ \E it \in items :
       LET isP == it.type \in PromiseTypes
           refused == s.State = STATE_CLOSED
           p == IF isP THEN Len(promises) + 1 ELSE 0
       IN /\ promises' = IF isP
                         THEN Append(promises, [type |-> it.type, settled |-> << >>,
                                                refused |-> refused])
                         ELSE promises
          /\ calls' = IF refused THEN calls
                      ELSE Append(calls, [item |-> it, p |-> p, pc |-> "checked"])
  /\ UNCHANGED <<s, actionChan, Streams, EventBus, pulseSuber, pc, cfg, reg, vt>>

Receive == ReceiveOf(Items, MaxCalls)

\* SafeChan.Send: count the sender in, unless the channel is closed
SendBegin ==
  /\ pc # "panic"
  /\ \E k \in DOMAIN calls :
       /\ calls[k].pc = "checked"
       /\ IF actionChan.closed
          THEN /\ calls' = Drop(calls, k)
               /\ promises' = IF calls[k].p # 0
                              THEN [promises EXCEPT ![calls[k].p].refused = TRUE]
                              ELSE promises
               /\ UNCHANGED actionChan
          ELSE /\ calls' = [calls EXCEPT ![k].pc = "sending"]
               /\ actionChan' = [actionChan EXCEPT !.senders = @ + 1]
               /\ UNCHANGED promises
  /\ UNCHANGED <<s, Streams, EventBus, obs, pulseSuber, pc, cfg, reg, vt>>

\* SafeChan.Send: the channel send completes when the buffer has room
SendDone ==
  /\ pc # "panic"
  /\ \E k \in DOMAIN calls :
       /\ calls[k].pc = "sending"
       /\ Len(actionChan.C) < ChanCap
       /\ actionChan' = [actionChan EXCEPT
                           !.C = Append(@, [item |-> calls[k].item, p |-> calls[k].p]),
                           !.senders = @ - 1]
       /\ calls' = Drop(calls, k)
  /\ UNCHANGED <<s, Streams, EventBus, obs, pulseSuber, pc, promises, cfg, reg, vt>>

Run ==
  \/ RunPulse \/ RunTimeout \/ RunSubPulse \/ RunPublish \/ RunSubscribe
  \/ RunUnsubscribe \/ RunTrackRemoved \/ RunTrack \/ RunNoMoreTrack
  \/ RunStreamAction \/ RunChanClosed \/ SpinClose

Next == Run \/ TimerFire \/ Receive \/ SendBegin \/ SendDone

Spec == Init /\ [][Next]_vars

\* The owning task keeps running (its select takes a ready case), an armed
\* timer fires, and a Receive caller that can take its next step takes it.
\* Nothing obliges anybody to call Receive.
FairSpec ==
  Spec /\ WF_vars(Run) /\ WF_vars(TimerFire) /\ WF_vars(SendBegin) /\ WF_vars(SendDone)

\* The same program and fairness with fewer calls of Receive, for the
\* properties of whole behaviours.
ReceiveLive == obs.received < MaxLiveCalls /\ Receive
NextLive == Run \/ TimerFire \/ ReceiveLive \/ SendBegin \/ SendDone
LiveSpec ==
  Init /\ [][NextLive]_vars
  /\ WF_vars(Run) /\ WF_vars(TimerFire) /\ WF_vars(SendBegin) /\ WF_vars(SendDone)

\* ------------------------------------------- streams with two subscribers
MaxSubCalls == 3   \* Receive calls made over one behaviour of SubSpec
Subs2 == {"s1", "s2"}
SubItems ==
  [type : {"PubReq"}, v : {"p1"}]
  \cup [type : {"SubReq", "Unsubscribe"}, v : Subs2]
  \cup [type : {"SubPulse"}, v : {"s1"}]

\* The same program with callers that publish, subscribe and unsubscribe
\* only, two subscribers among them.
ReceiveSub == ReceiveOf(SubItems, MaxSubCalls)
NextSub ==
  \/ RunPulse \/ RunTimeout \/ RunSubPulse \/ RunPublish \/ RunSubscribe
  \/ RunUnsubscribe \/ RunChanClosed \/ SpinClose \/ TimerFire \/ ReceiveSub \/ SendBegin \/ SendDone
SubSpec == Init /\ [][NextSub]_vars

\* ------------------------------------------------- streams of tracks only
MaxTrackCalls == 3 \* Receive calls made over one behaviour of TrackSpec
TrackItems ==
  [type : {"PubReq"}, v : {"p1"}]
  \cup [type : {"TrackAdd", "TrackRemoved"}, v : {"v1", "a1"}]

\* The same program with callers that publish, add and remove the video and
\* the audio track (which have the same name) only.
ReceiveTrack == ReceiveOf(TrackItems, MaxTrackCalls)
NextTrack ==
  \/ RunTimeout \/ RunPublish \/ RunTrackRemoved \/ RunTrack \/ RunChanClosed
  \/ SpinClose \/ TimerFire \/ ReceiveTrack \/ SendBegin \/ SendDone
TrackSpec == Init /\ [][NextTrack]_vars

\* ---------------------------------------------------------- the registry
\* Several callers of findOrCreateStream and the owning tasks of the Streams
\* they create. A stream of reg.streams is known by its index.
MainVars == <<s, actionChan, Streams, EventBus, obs, pulseSuber, pc, calls, promises, cfg>>

Return(c, id, created) ==
  [reg EXCEPT !.call[c].pc = "unlocking", !.call[c].s = id, !.call[c].created = created]

\* the caller takes the write lock of the registry and calls
StreamsLock(c, path) ==
  /\ reg.call[c].pc \in {"idle", "returned"}
  /\ reg.finds < MaxFinds
  /\ reg.lock = Nil
  /\ reg' = [reg EXCEPT !.lock = c, !.finds = @ + 1,
                        !.call[c] = [pc |-> "called", path |-> path, s |-> 0, created |-> FALSE]]
  /\ UNCHANGED <<MainVars, vt>>

\* findOrCreateStream without the lookup
findLookup_alwaysAbsent(c) ==
  /\ reg.call[c].pc = "called"
  /\ reg' = IF Segments(reg.call[c].path) < 2 THEN Return(c, 0, FALSE)
            ELSE [reg EXCEPT !.call[c].pc = "creating"]
  /\ UNCHANGED <<MainVars, vt>>

\* findOrCreateStream: the path test and the lookup
findLookup(c) ==
  /\ reg.call[c].pc = "called"
  /\ LET path == reg.call[c].path
     IN reg' = IF Segments(path) < 2 THEN Return(c, 0, FALSE)
               ELSE IF reg.Map[path] # 0 THEN Return(c, reg.Map[path], FALSE)
               ELSE [reg EXCEPT !.call[c].pc = "creating"]
  /\ UNCHANGED <<MainVars, vt>>

\* findOrCreateStream: the new Stream, its registration and go s.run()
findCreate(c) ==
  /\ reg.call[c].pc = "creating"
  /\ LET path == reg.call[c].path
         id == Len(reg.streams) + 1
         r == [reg EXCEPT !.streams = Append(@, [Path |-> path, State |-> STATE_WAITPUBLISH,
                                                 pc |-> "run"]),
                          !.Map[path] = id]
     IN reg' = [r EXCEPT !.call[c].pc = "unlocking", !.call[c].s = id,
                         !.call[c].created = TRUE]
  /\ UNCHANGED <<MainVars, vt>>

\* the caller releases the lock with the result in hand
StreamsUnlock(c) ==
  /\ reg.call[c].pc = "unlocking"
  /\ reg' = [reg EXCEPT !.lock = IF @ = c THEN Nil ELSE @, !.call[c].pc = "returned"]
  /\ UNCHANGED <<MainVars, vt>>

\* the owning task of stream x makes the transition to Closed
EnterClosed(x) ==
  /\ x \in DOMAIN reg.streams
  /\ reg.streams[x].pc = "run"
  /\ reg' = [reg EXCEPT !.streams[x].State = STATE_CLOSED, !.streams[x].pc = "closing"]
  /\ UNCHANGED <<MainVars, vt>>

\* Streams.Delete(r.Path) by the owning task of stream x: the entry of the
\* path goes, whichever Stream it holds
StreamsDelete(x) ==
  /\ x \in DOMAIN reg.streams
  /\ reg.streams[x].pc = "closing"
  /\ reg.lock = Nil
  /\ LET path == reg.streams[x].Path
     IN reg' = [reg EXCEPT !.Map[path] = 0, !.streams[x].pc = "done",
                           !.deleted = @ \cup {[by |-> x, was |-> reg.Map[path]]}]
  /\ UNCHANGED <<MainVars, vt>>

RegNext ==
  \/ \E c \in Callers, path \in RegPaths : StreamsLock(c, path)
  \/ \E c \in Callers : findLookup(c)
  \/ \E c \in Callers : findCreate(c)
  \/ \E c \in Callers : StreamsUnlock(c)
  \/ \E x \in 1..MaxFinds : EnterClosed(x)
  \/ \E x \in 1..MaxFinds : StreamsDelete(x)

RegSpec == Init /\ [][RegNext]_vars

\* ------------------------------------------------------- the H265 track
\* The RTP packets of the model: one NALU, an aggregation packet of two NALUs,
\* or a fragment (Start bit set or not) of a NALU. Payload holds the first
\* byte of the header of each NALU.
RTPFrames ==
  [kind : {"single"}, Payload : {<<b>> : b \in NaluBytes}, start : {FALSE}, Marker : BOOLEAN]
  \cup [kind : {"AP"}, Payload : {<<b1, b2>> : b1 \in NaluBytes, b2 \in NaluBytes},
        start : {FALSE}, Marker : BOOLEAN]
  \cup [kind : {"FU"}, Payload : {<<b>> : b \in NaluBytes}, start : BOOLEAN, Marker : BOOLEAN]

\* H265.WriteRTPFrame
WriteRTPFrame(frame, err) ==
  /\ Len(vt.frames) < MaxFrames
  /\ Len(vt.AU) + Len(frame.Payload) <= MaxAU
  /\ LET b == frame.Payload
         v1 == IF frame.kind = "AP"
               THEN WriteSliceBytes(WriteSliceBytes(vt, b[1], err), b[2], err)
               ELSE IF frame.kind = "FU"
               THEN IF frame.start
                    THEN WriteSliceBytes(vt, Header(ParseH265NALUType(b[1])), err)
                    ELSE vt
               ELSE WriteSliceBytes(vt, b[1], err)
         v2 == IF ~v1.dcChanged /\ v1.IFrame THEN insertDCRtp(v1) ELSE v1
     IN vt' = IF frame.Marker THEN Flush(v2, v1.dcChanged) ELSE v1
  /\ UNCHANGED <<MainVars, reg>>

H265Next == \E frame \in RTPFrames, err \in BOOLEAN : WriteRTPFrame(frame, err)

H265Spec == Init /\ [][H265Next]_vars

\* ============================================================== claims
IsPrefix(a, b) == Len(a) <= Len(b) /\ SubSeq(b, 1, Len(a)) = a
IsSuffix(a, b) == Len(a) <= Len(b) /\ SubSeq(b, Len(b) - Len(a) + 1, Len(b)) = a

\* the transition table of the specification (section 4.5), as triples
TransitionTable ==
  { <<STATE_WAITPUBLISH, ACTION_PUBLISH, STATE_PUBLISHING>>,
    <<STATE_WAITPUBLISH, ACTION_TIMEOUT, STATE_CLOSED>>,
    <<STATE_WAITPUBLISH, ACTION_CLOSE, STATE_CLOSED>>,
    <<STATE_WAITPUBLISH, ACTION_LASTLEAVE, STATE_CLOSED>>,
    <<STATE_PUBLISHING, ACTION_PUBLISHLOST, STATE_WAITPUBLISH>>,
    <<STATE_PUBLISHING, ACTION_CLOSE, STATE_CLOSED>>,
    <<STATE_PUBLISHING, ACTION_LASTLEAVE, STATE_WAITCLOSE>>,
    <<STATE_WAITCLOSE, ACTION_TIMEOUT, STATE_CLOSED>>,
    <<STATE_WAITCLOSE, ACTION_PUBLISHLOST, STATE_CLOSED>>,
    <<STATE_WAITCLOSE, ACTION_CLOSE, STATE_CLOSED>>,
    <<STATE_WAITCLOSE, ACTION_FIRSTENTER, STATE_PUBLISHING>> }

\* the state the i-th recorded transition of history h led to
StateAfter(h, i, last) == IF i = Len(h) THEN last ELSE h[i + 1].From

\* C1: State is always one of the four states, it is WaitPublish while no
\* transition was made, and the State is what the recorded transitions lead
\* to from WaitPublish, each of them an entry (From, Action, To) of the
\* transition table; so no step changes State except by table entries, and
\* an action without an entry for the current state changes nothing.
C1_StateFollowsTable ==
  LET h == s.SEHistory
  IN /\ s.State \in States
     /\ h = << >> => s.State = STATE_WAITPUBLISH
     /\ h # << >> => h[1].From = STATE_WAITPUBLISH
     /\ \A i \in 1..Len(h) :
          <<h[i].From, h[i].Action, StateAfter(h, i, s.State)>> \in TransitionTable

C1_Witness ==
  /\ Len(s.SEHistory) = 3
  /\ s.State = STATE_CLOSED
  /\ s.SEHistory[2].From = STATE_PUBLISHING


\* C2 (as claimed): once State is Closed and the transition to Closed is
\* complete, the owning task takes no further item from the action queue,
\* changes neither State, the history, Publisher, Tracks nor Subscribers, and
\* sends no further event (bus, Publisher, subscribers, pulse).
C2_NothingAfterClosed ==
  [][(s.State = STATE_CLOSED /\ pc # "closing") =>
       /\ actionChan'.C = actionChan.C
       /\ s'.State = s.State
       /\ s'.SEHistory = s.SEHistory
       /\ s'.Publisher = s.Publisher
       /\ s'.Tracks = s.Tracks
       /\ s'.MainVideo = s.MainVideo
       /\ s'.Subscribers = s.Subscribers
       /\ EventBus' = EventBus
       /\ obs'.OnEvent = obs.OnEvent
       /\ obs'.Broadcast = obs.Broadcast
       /\ obs'.pulses = obs.pulses]_vars

HasPublish(h) == \E i \in 1..Len(h) : h[i].Action = ACTION_PUBLISH

C4_HistoryCountsTransitions ==
  [][LET h == s.SEHistory
         g == s'.SEHistory
     IN /\ Len(g) = obs'.accepted
        /\ IsPrefix(h, g)
        /\ Len(g) - Len(h) = obs'.accepted - obs.accepted
        /\ \A i \in (Len(h) + 1)..Len(g) :
             /\ g[i].Action \in Actions
             /\ g[i].From = IF i = Len(h) + 1 THEN s.State
                            ELSE StreamFSM[g[i - 1].From][g[i - 1].Action]]_vars

C4_Witness ==
  /\ Len(s.SEHistory) = 2
  /\ s.SEHistory[1].Action = ACTION_PUBLISH
  /\ s.SEHistory[2].Action = ACTION_LASTLEAVE
  /\ obs.received = 1
  /\ obs.accepted = 2

\* C5 (as claimed): a PublishRequest promise is settled at most once by the
\* owning task: never rejected twice, never both rejected and resolved.
C5_PublishSettledOnce ==
  \A p \in DOMAIN promises :
    promises[p].type = "PubReq" => Len(promises[p].settled) <= 1

\* C6 (as claimed): a promise of AddTrack whose item Receive did not enqueue
\* (the Stream was Closed) is rejected back to the caller, not left pending.
C6_RefusedTrackIsRejected ==
  \A p \in DOMAIN promises :
    (promises[p].type = "TrackAdd" /\ promises[p].refused) =>
      promises[p].settled = <<"reject">>

\* the typed event of the i-th recorded transition
EventOf(h, i, last) ==
  LET to == StateAfter(h, i, last)
  IN CASE to = STATE_PUBLISHING -> IF i = 1 THEN "SEpublish" ELSE "SErepublish"
       [] to = STATE_WAITPUBLISH -> "SEwaitPublish"
       [] to = STATE_WAITCLOSE -> "SEwaitClose"
       [] to = STATE_CLOSED -> "SEclose"

\* C7 (as claimed): after SEcreate the bus carries exactly one event per
\* recorded transition, in order and of the type of its target state (the
\* event of a transition to Closed that is still in its spin-close loop is
\* yet to come); the Publisher got the events since it was set.
C7_OneEventPerTransition ==
  LET h == s.SEHistory
      n == IF pc = "closing" THEN Len(h) - 1 ELSE Len(h)
      bus == Tail(EventBus)
  IN /\ Len(bus) = n
     /\ \A i \in 1..n : bus[i] = EventOf(h, i, s.State)
     /\ IsSuffix([i \in 1..Len(obs.OnEvent) |-> obs.OnEvent[i].ev], bus)

IsPublishEvent(e) == e.ev \in {"SEpublish", "SErepublish"}
CountSeq(q, P(_)) == Cardinality({i \in 1..Len(q) : P(q[i])})
EntersPublishing(e) == <<e.From, e.Action, STATE_PUBLISHING>> \in TransitionTable

\* C8: the event produced on a transition to Publishing is SEpublish if the
\* history then holds one entry and SErepublish otherwise; one such event is
\* produced per transition to Publishing, SEpublish at most once and only as
\* the first of them.
C8_PublishOnceThenRepublish ==
  LET b == obs.Broadcast
  IN /\ \A i \in 1..Len(b) :
          IsPublishEvent(b[i]) => (b[i].ev = "SEpublish" <=> b[i].n = 1)
     /\ CountSeq(b, IsPublishEvent) = CountSeq(s.SEHistory, EntersPublishing)
     /\ Cardinality({i \in 1..Len(b) : b[i].ev = "SEpublish"}) <= 1
     /\ \A i, j \in 1..Len(b) :
          (i < j /\ IsPublishEvent(b[i]) /\ IsPublishEvent(b[j])) => b[j].ev = "SErepublish"

C8_Witness ==
  /\ \E i \in 1..Len(obs.Broadcast) : obs.Broadcast[i].ev = "SEpublish"
  /\ \E i \in 1..Len(obs.Broadcast) : obs.Broadcast[i].ev = "SErepublish"


\* C9: a Stream on which Receive is never called eventually has made the one
\* transition WaitPublish -Timeout-> Closed, is out of the registry, and its
\* owning task has returned.
C9_IdleStreamTimesOut ==
  <>(\/ obs.received > 0
     \/ /\ pc = "done"
        /\ s.State = STATE_CLOSED
        /\ s.SEHistory = <<[Action |-> ACTION_TIMEOUT, From |-> STATE_WAITPUBLISH]>>
        /\ Path \notin Streams
        /\ actionChan.closed)

C9_Witness ==
  /\ obs.received = 0
  /\ pc = "done"
  /\ s.SEHistory = <<[Action |-> ACTION_TIMEOUT, From |-> STATE_WAITPUBLISH]>>
  /\ Path \notin Streams

\* C10 (as claimed): whenever the owning task is in the spin-close loop, the
\* close of the action queue eventually succeeds.
C10_SpinCloseSucceeds == (pc = "closing") ~> actionChan.closed

\* C11: under the registry lock, every Stream whose owning task has not yet
\* deleted it is the one registered under its path (so a path has at most one
\* live Stream and one owning task, and a closing Stream deletes no other
\* Stream's entry); calls that return different Streams for one path are
\* separated by the deletion of the earlier Stream; at most one call holds a
\* given Stream with created = true.
Returned(c) == reg.call[c].pc \in {"unlocking", "returned"} /\ reg.call[c].s # 0

C12_FieldsTouchedByOwnerOnly == obs.foreign = {}

\* C13: every access unit flushed by the H265 track carries IFrame = true
\* exactly when one of its NALUs is of a key type (BLA, IDR or CRA), a key
\* slice followed by a trailing slice included.
HasKeySlice(au) == \E i \in DOMAIN au : ParseH265NALUType(au[i]) \in KeySliceTypes

C13_IFrameIffKeySlice ==
  \A i \in DOMAIN vt.frames : vt.frames[i].IFrame <=> HasKeySlice(vt.frames[i].AU)

\* C18: a flushed access unit has the decoder-configuration packet inserted
\* exactly when dcChanged was true at the marker and the unit is a key frame.
C18_DCInsertedIffChanged ==
  \A i \in DOMAIN vt.frames :
    vt.frames[i].dcInserted <=> (vt.frames[i].dcChanged /\ vt.frames[i].IFrame)

\* The owning task takes the head of the queue, an item of the given type,
\* in this step.
Handles(type) ==
  /\ pc = "run"
  /\ Len(actionChan.C) > 0
  /\ Head(actionChan.C).item.type = type
  /\ actionChan'.C = Tail(actionChan.C)

\* C14: a TrackAdd whose name is already in the Tracks mapping has its
\* promise rejected and leaves the mapping as it was; a TrackAdd with a new
\* name has its promise resolved and the track inserted under that name; a
\* track is only ever held under its own name.
C14_DuplicateTrackRejected ==
  [][Handles("TrackAdd") =>
       LET t == Head(actionChan.C).item.v
           p == Head(actionChan.C).p
       IN /\ IF s.Tracks[TrackName[t]] # Nil
             THEN /\ promises'[p].settled = promises[p].settled \o <<"reject">>
                  /\ s'.Tracks = s.Tracks
             ELSE /\ promises'[p].settled = promises[p].settled \o <<"resolve">>
                  /\ s'.Tracks = [s.Tracks EXCEPT ![TrackName[t]] = t]
          /\ \A nm \in TrackNames : s'.Tracks[nm] # Nil => TrackName[s'.Tracks[nm]] = nm]_vars

\* the video track was added and the audio track of the same name refused
C14_Witness ==
  /\ s.Tracks["main"] = "v1"
  /\ \E p \in DOMAIN promises, q \in DOMAIN promises :
       /\ p < q
       /\ promises[p].type = "TrackAdd" /\ promises[p].settled = <<"resolve">>
       /\ promises[q].type = "TrackAdd" /\ promises[q].settled = <<"reject">>
       /\ ~promises[q].refused

NewEntries == (Len(s.SEHistory) + 1)..Len(s'.SEHistory)
Target(e) == EventNext(e).next
\* The step is a TrackAdd whose track is inserted and whose handler runs to
\* its end: it ends with s.timeout.Reset(time.Second * 5).
TrackInserted == Handles("TrackAdd") /\ s'.Tracks # s.Tracks /\ pc' # "panic"

TimerStep == pc = "run" /\ s.timeout.C /\ ~s'.timeout.C
Lost == obs'.tick.hasTrackTimeout \/ obs'.tick.pubClosed
LastEntry(h) == h[Len(h)]
\* The reaping of this step took the last subscriber away and applied LastLeave.
ReapedLast ==
  /\ cfg.DelayCloseTimeout > 0 \/ cfg.IdleTimeout > 0
  /\ s.Subscribers # {}
  /\ s'.Subscribers = {}
\* What action(ACTION_TIMEOUT) does in the state of the step.
TimeoutApplied ==
  LET e == [Action |-> ACTION_TIMEOUT, From |-> s.State]
  IN IF EventNext(e).ok
     THEN s'.State = EventNext(e).next /\ s'.SEHistory = Append(s.SEHistory, e)
     ELSE s'.State = s.State /\ s'.SEHistory = s.SEHistory

\* C17 as stated: at a timer tick in Publishing, PublishLost is invoked
\* exactly when a non-Data track has timed out or the Publisher is closed;
\* otherwise the Stream remains in Publishing, the timer is reset to 5 s and
\* AbortWait is called; at a tick in any other state Timeout is invoked.
C17_TickWhilePublishing ==
  [][TimerStep =>
       IF s.State = STATE_PUBLISHING
       THEN IF Lost
            THEN /\ Len(s'.SEHistory) > Len(s.SEHistory)
                 /\ LastEntry(s'.SEHistory).Action = ACTION_PUBLISHLOST
            ELSE /\ s'.State = STATE_PUBLISHING
                 /\ s'.SEHistory = s.SEHistory
                 /\ s'.timeout.armed /\ s'.timeout.d = "5s"
                 /\ s'.waitAborted
       ELSE TimeoutApplied]_vars

\* C17, amended: otherwise no PublishLost is invoked, the timer is reset to
\* 5 s and AbortWait is called, and the Stream remains in Publishing unless
\* the reaping removed its last subscriber and LastLeave took it to WaitClose.
C17_TickWhilePublishingWithReaping ==
  [][TimerStep =>
       IF s.State = STATE_PUBLISHING
       THEN IF Lost
            THEN /\ Len(s'.SEHistory) > Len(s.SEHistory)
                 /\ LastEntry(s'.SEHistory).Action = ACTION_PUBLISHLOST
            ELSE /\ IF ReapedLast
                    THEN /\ s'.State = STATE_WAITCLOSE
                         /\ s'.SEHistory = Append(s.SEHistory, [Action |-> ACTION_LASTLEAVE,
                                                               From |-> STATE_PUBLISHING])
                    ELSE /\ s'.State = STATE_PUBLISHING
                         /\ s'.SEHistory = s.SEHistory
                 /\ s'.timeout.armed /\ s'.timeout.d = "5s"
                 /\ s'.waitAborted
       ELSE TimeoutApplied]_vars

\* the Publisher reported closed at a tick (no track had timed out) and
\* PublishLost took the stream from Publishing back to WaitPublish
C17_Witness ==
  /\ obs.tick = [hasTrackTimeout |-> FALSE, pubClosed |-> TRUE]
  /\ s.State = STATE_WAITPUBLISH
  /\ Len(s.SEHistory) > 0
  /\ LastEntry(s.SEHistory) = [Action |-> ACTION_PUBLISHLOST, From |-> STATE_PUBLISHING]

\* C19: a PublishRequest that is rejected while the Stream is not Closed (a
\* different publisher while Publishing or WaitClose) leaves Publisher,
\* State and the history as they were.
C19_RejectedPublishChangesNothing ==
  [][(Handles("PubReq") /\ s.State # STATE_CLOSED
        /\ promises'[Head(actionChan.C).p].settled = <<"reject">>)
     => /\ s'.Publisher = s.Publisher
        /\ s'.State = s.State
        /\ s'.SEHistory = s.SEHistory]_vars

\* C20: MainVideo is unset or is a Video track that the Tracks mapping holds.
C20_MainVideoIsRegistered ==
  s.MainVideo # Nil =>
    /\ TrackKind[s.MainVideo] = "Video"
    /\ s.Tracks[TrackName[s.MainVideo]] = s.MainVideo

\* C21: whenever the owning task is back at its select with State =
\* WaitClose, the timer was last reset with IdleTimeout if IdleTimeout is
\* positive and with DelayCloseTimeout otherwise: no 5 s reset of the timer
\* branch or of a TrackAdd has overwritten the deadline of the transition.
C21_WaitCloseDeadlineKept ==
  (pc = "run" /\ s.State = STATE_WAITCLOSE) =>
    s.timeout.d = IF cfg.IdleTimeout > 0 THEN "IdleTimeout" ELSE "DelayCloseTimeout"

\* C22: the owning task never reads the configuration of a Publisher that is
\* not set: no sequence of queue items makes it dereference a nil Publisher.
C22_PublisherSetWhenConfigRead == pc # "panic"

====
